---- MODULE Spec2Model ----
(***************************************************************************)
(* Model of app_p1_2.py, the Streamlit impact visualiser of project P1.2.  *)
(*                                                                         *)
(* The script is re-run from top to bottom on every widget interaction.    *)
(* The model follows one browser session: the widget state (the four       *)
(* sliders), the position of the running script (pc), the script's globals *)
(* (env), the page being built (pagina), the logo requests sent, and the   *)
(* one piece of process state that outlives a run, pyplot's registry of    *)
(* open figures.                                                           *)
(*                                                                         *)
(* Numbers: the script computes with IEEE doubles.  The model computes     *)
(* with exact rationals [n, d] in lowest terms; every value the script     *)
(* formats is shown with two decimals, and the model formats the exact     *)
(* value the same way (Fmt2).  Identifiers keep the source's names, with   *)
(* "ano" for the source's "año".                                           *)
(***************************************************************************)
EXTENDS Integers, Sequences, FiniteSets, TLC

VARIABLES sliders, pc, env, pagina, peticiones, figuras_abiertas, prev

vars == <<sliders, pc, env, pagina, peticiones, figuras_abiertas, prev>>

(***************************************************************************)
(* Bounds of the model.                                                    *)
(***************************************************************************)
\* Slider positions modelled besides the minimum, the default and the
\* maximum: the first MaxPasos steps above the minimum.
MaxPasos == 1
\* Runs of the script in one session (each leaves one figure open).
MaxEjecuciones == 4

(***************************************************************************)
(* Exact rational arithmetic standing for the script's float arithmetic.   *)
(***************************************************************************)
RECURSIVE GCD(_, _)
GCD(a, b) == IF b = 0 THEN a ELSE GCD(b, a % b)

Abs(x) == IF x < 0 THEN -x ELSE x

\* n/d in lowest terms with a positive denominator.
Rat(n, d) ==
    LET s == IF d < 0 THEN -1 ELSE 1
        g == GCD(Abs(n), Abs(d))
    IN  [n |-> (s * n) \div g, d |-> (s * d) \div g]

Ent(k) == [n |-> k, d |-> 1]

\* pandas turns a None of a numeric column into NaN, which every operation
\* propagates.
NaN == [n |-> 0, d |-> 0]

RAdd(a, b) == IF a = NaN \/ b = NaN THEN NaN ELSE Rat(a.n * b.d + b.n * a.d, a.d * b.d)
RSub(a, b) == IF a = NaN \/ b = NaN THEN NaN ELSE Rat(a.n * b.d - b.n * a.d, a.d * b.d)
RMul(a, b) == IF a = NaN \/ b = NaN THEN NaN ELSE Rat(a.n * b.n, a.d * b.d)
RDiv(a, b) == IF a = NaN \/ b = NaN THEN NaN ELSE Rat(a.n * b.d, a.d * b.n)
RLt(a, b) == a.n * b.d < b.n * a.d
\* Python's max(a, b): the first argument unless the second is greater.
RMax(a, b) == IF RLt(a, b) THEN b ELSE a

\* f"{x:.2f}": x rounded to hundredths (half to even), as a number of
\* hundredths.  Only non-negative values are formatted.
Fmt2(x) ==
    LET c == 100 * x.n
        q == c \div x.d
        r == c % x.d
    IN  IF 2 * r < x.d THEN q
        ELSE IF 2 * r > x.d THEN q + 1
        ELSE IF q % 2 = 0 THEN q ELSE q + 1

(***************************************************************************)
(* 1. Project data (data_p12 / df_diagnostico_p12).  Only the numeric      *)
(* columns the calculations can reach are kept; a None cell is NaN.        *)
(***************************************************************************)
data_p12 ==
    [ dosis_sorbato_conv_g_kg            |-> <<Ent(4), NaN, NaN, NaN, NaN>>,
      dosis_sorbato_opt_g_kg             |-> <<Rat(24, 10), NaN, NaN, NaN, NaN>>,
      precio_sorbato_usd_kg              |-> <<NaN, NaN, Ent(5), NaN, NaN>>,
      distancia_transporte_km            |-> <<Ent(12000), Ent(12000), NaN, NaN, NaN>>,
      factor_emision_co2e_ton_km         |-> <<Rat(1, 100), Rat(1, 100), NaN, NaN, NaN>>,
      precio_ciruela_exportacion_usd_ton |-> <<NaN, NaN, NaN, NaN, Ent(3200)>> ]

\* df_diagnostico_p12.loc[fila, columna], rows numbered from 0 as in pandas.
df_loc(fila, columna) == data_p12[columna][fila + 1]

(***************************************************************************)
(* 2. The four sidebar sliders: min_value, max_value, value (default) and  *)
(* step of each.                                                           *)
(***************************************************************************)
Widgets ==
    [ produccion_anual |->
        [min_value |-> Ent(100), max_value |-> Ent(5000), value |-> Ent(2500), step |-> Ent(100)],
      porcentaje_reduccion_sorbato |->
        [min_value |-> Ent(20), max_value |-> Ent(60), value |-> Ent(40), step |-> Ent(1)],
      porcentaje_devoluciones_evitadas |->
        [min_value |-> Ent(0), max_value |-> Ent(5), value |-> Ent(1), step |-> Rat(1, 10)],
      precio_ciruela |->
        [min_value |-> Ent(2000), max_value |-> Ent(5000), value |-> Ent(3200), step |-> Ent(100)] ]

NombresSliders == DOMAIN Widgets

\* The positions the model moves a slider to.
Posiciones(w) ==
    {Widgets[w].min_value, Widgets[w].value, Widgets[w].max_value}
      \cup {RAdd(Widgets[w].min_value, RMul(Ent(k), Widgets[w].step)) : k \in 1..MaxPasos}

(***************************************************************************)
(* 3. Indicator calculations.  Each assignment of the script is one        *)
(* operator named after the variable it assigns; its argument e holds the  *)
(* script globals the right-hand side names (Lee), and nothing else.       *)
(***************************************************************************)
dosis_conv_g_kg(e) == df_loc(0, "dosis_sorbato_conv_g_kg")

\* Variant: the optimised dose taken from the data sheet, not from the slider.
dosis_optim_de_ficha(e) == df_loc(0, "dosis_sorbato_opt_g_kg")

dosis_optim_g_kg_calculada(e) ==
    RMul(e.dosis_conv_g_kg,
         RSub(Ent(1), RDiv(e.porcentaje_reduccion_sorbato, Ent(100))))

reduccion_sorbato_kg_ano(e) ==
    RDiv(RMul(RSub(e.dosis_conv_g_kg, e.dosis_optim_g_kg_calculada), e.produccion_anual),
         Ent(1000))

\* Variant: the sorbate price read from the dose column.
precio_sorbato_de_otra_columna(e) == df_loc(0, "dosis_sorbato_conv_g_kg")

precio_sorbato(e) == df_loc(2, "precio_sorbato_usd_kg")

ahorro_costos_sorbato_usd_ano(e) == RMul(e.reduccion_sorbato_kg_ano, e.precio_sorbato)

pda_evitada_ton_ano(e) ==
    RMul(RDiv(e.porcentaje_devoluciones_evitadas, Ent(100)), e.produccion_anual)

distancia_transporte_km(e) == df_loc(1, "distancia_transporte_km")

factor_emision_co2e_ton_km(e) == df_loc(1, "factor_emision_co2e_ton_km")

\* Variant: the emissions divided by 1000 once more.
gei_evitados_dividido_por_1000(e) ==
    RDiv(RMul(e.pda_evitada_ton_ano,
              RMul(e.distancia_transporte_km, e.factor_emision_co2e_ton_km)),
         Ent(1000))

gei_evitados_tco2e_ano(e) ==
    RMul(e.pda_evitada_ton_ano,
         RMul(e.distancia_transporte_km, e.factor_emision_co2e_ton_km))

\* Variant: the economic loss priced with the data sheet's export price.
perdidas_con_precio_de_ficha(e) ==
    RMul(e.pda_evitada_ton_ano, df_loc(4, "precio_ciruela_exportacion_usd_ton"))

perdidas_economicas_pda_evitada_usd_ano(e) ==
    RMul(e.pda_evitada_ton_ano, e.precio_ciruela)

(***************************************************************************)
(* Chart values: the baselines, the two bars of each chart and their       *)
(* maximum.                                                                *)
(***************************************************************************)
reduccion_sorbato_base_ejemplo(e) == Ent(0)

pda_evitada_base_ejemplo(e) == Ent(0)

perdidas_economicas_pda_base_ejemplo(e) == Ent(0)

sorbato_values(e) == <<e.reduccion_sorbato_base_ejemplo, e.reduccion_sorbato_kg_ano>>

pda_values(e) == <<e.pda_evitada_base_ejemplo, e.pda_evitada_ton_ano>>

perdidas_eco_values(e) ==
    <<e.perdidas_economicas_pda_base_ejemplo, e.perdidas_economicas_pda_evitada_usd_ano>>

\* Python's max over a non-empty list.
RECURSIVE MaxLista(_)
MaxLista(l) == IF Len(l) = 1 THEN l[1] ELSE RMax(l[1], MaxLista(Tail(l)))

max_sorbato_val(e) == MaxLista(sorbato_values(e))

max_pda_val(e) == MaxLista(pda_values(e))

max_perdidas_val(e) == MaxLista(perdidas_eco_values(e))

\* The assignments of the chart section that the charts read back.
OrdenGraficos ==
    << "reduccion_sorbato_base_ejemplo", "pda_evitada_base_ejemplo",
       "perdidas_economicas_pda_base_ejemplo",
       "max_sorbato_val", "max_pda_val", "max_perdidas_val" >>

\* The assignments of section 3 in program order.
Orden ==
    << "dosis_conv_g_kg", "dosis_optim_g_kg_calculada", "reduccion_sorbato_kg_ano",
       "precio_sorbato", "ahorro_costos_sorbato_usd_ano", "pda_evitada_ton_ano",
       "distancia_transporte_km", "factor_emision_co2e_ton_km",
       "gei_evitados_tco2e_ano", "perdidas_economicas_pda_evitada_usd_ano" >>

\* The script globals named on the right-hand side of each assignment.
Lee(destino) ==
    CASE destino = "dosis_conv_g_kg" -> {}
      [] destino = "dosis_optim_g_kg_calculada" ->
            {"dosis_conv_g_kg", "porcentaje_reduccion_sorbato"}
      [] destino = "reduccion_sorbato_kg_ano" ->
            {"dosis_conv_g_kg", "dosis_optim_g_kg_calculada", "produccion_anual"}
      [] destino = "precio_sorbato" -> {}
      [] destino = "ahorro_costos_sorbato_usd_ano" ->
            {"reduccion_sorbato_kg_ano", "precio_sorbato"}
      [] destino = "pda_evitada_ton_ano" ->
            {"porcentaje_devoluciones_evitadas", "produccion_anual"}
      [] destino = "distancia_transporte_km" -> {}
      [] destino = "factor_emision_co2e_ton_km" -> {}
      [] destino = "gei_evitados_tco2e_ano" ->
            {"pda_evitada_ton_ano", "distancia_transporte_km", "factor_emision_co2e_ton_km"}
      [] destino = "perdidas_economicas_pda_evitada_usd_ano" ->
            {"pda_evitada_ton_ano", "precio_ciruela"}
      [] destino = "reduccion_sorbato_base_ejemplo" -> {}
      [] destino = "pda_evitada_base_ejemplo" -> {}
      [] destino = "perdidas_economicas_pda_base_ejemplo" -> {}
      [] destino = "max_sorbato_val" ->
            {"reduccion_sorbato_base_ejemplo", "reduccion_sorbato_kg_ano"}
      [] destino = "max_pda_val" -> {"pda_evitada_base_ejemplo", "pda_evitada_ton_ano"}
      [] destino = "max_perdidas_val" ->
            {"perdidas_economicas_pda_base_ejemplo",
             "perdidas_economicas_pda_evitada_usd_ano"}

Valor(destino, e) ==
    CASE destino = "dosis_conv_g_kg" -> dosis_conv_g_kg(e)
      [] destino = "dosis_optim_g_kg_calculada" -> dosis_optim_g_kg_calculada(e)
      [] destino = "reduccion_sorbato_kg_ano" -> reduccion_sorbato_kg_ano(e)
      [] destino = "precio_sorbato" -> precio_sorbato(e)
      [] destino = "ahorro_costos_sorbato_usd_ano" -> ahorro_costos_sorbato_usd_ano(e)
      [] destino = "pda_evitada_ton_ano" -> pda_evitada_ton_ano(e)
      [] destino = "distancia_transporte_km" -> distancia_transporte_km(e)
      [] destino = "factor_emision_co2e_ton_km" -> factor_emision_co2e_ton_km(e)
      [] destino = "gei_evitados_tco2e_ano" -> gei_evitados_tco2e_ano(e)
      [] destino = "perdidas_economicas_pda_evitada_usd_ano" ->
            perdidas_economicas_pda_evitada_usd_ano(e)
      [] destino = "reduccion_sorbato_base_ejemplo" -> reduccion_sorbato_base_ejemplo(e)
      [] destino = "pda_evitada_base_ejemplo" -> pda_evitada_base_ejemplo(e)
      [] destino = "perdidas_economicas_pda_base_ejemplo" ->
            perdidas_economicas_pda_base_ejemplo(e)
      [] destino = "max_sorbato_val" -> max_sorbato_val(e)
      [] destino = "max_pda_val" -> max_pda_val(e)
      [] destino = "max_perdidas_val" -> max_perdidas_val(e)

\* One assignment: the right-hand side sees only the globals it names.
Asignar(e, destino) ==
    (destino :> Valor(destino, [x \in Lee(destino) |-> e[x]])) @@ e

RECURSIVE Ejecutar(_, _)
Ejecutar(e, asignaciones) ==
    IF asignaciones = << >> THEN e
    ELSE Ejecutar(Asignar(e, Head(asignaciones)), Tail(asignaciones))

\* The five derived indicators, in the order of data_p12["indicador"].
Indicadores ==
    { "reduccion_sorbato_kg_ano", "gei_evitados_tco2e_ano",
      "ahorro_costos_sorbato_usd_ano", "pda_evitada_ton_ano",
      "perdidas_economicas_pda_evitada_usd_ano" }

(***************************************************************************)
(* 4. Rendering.  The page is kept per kind of element, each list in the   *)
(* order the script emits it.                                              *)
(***************************************************************************)
PaginaVacia ==
    [ metricas |-> << >>, figuras |-> << >>, descargas |-> << >>,
      imagenes |-> << >>, errores |-> << >>, pie |-> << >>, sidebar |-> << >> ]

\* st.metric(label=..., value=f"{x:.2f} ..."): the indicator formatted, in
\* hundredths.
Metric(label, indicador, e) ==
    [label |-> label, indicador |-> indicador, value |-> Fmt2(e[indicador])]

\* The five st.metric calls, col1..col5.
MostrarMetricas(e) ==
    << Metric("Reduccion en Uso de Sorbato", "reduccion_sorbato_kg_ano", e),
       Metric("Ahorro en Costos por Sorbato", "ahorro_costos_sorbato_usd_ano", e),
       Metric("PDA Evitado", "pda_evitada_ton_ano", e),
       Metric("GEI Evitados por Devoluciones", "gei_evitados_tco2e_ano", e),
       Metric("Perdidas Economicas Asociadas a PDA Evitada",
              "perdidas_economicas_pda_evitada_usd_ano", e) >>

labels == <<"Linea Base", "Proyeccion">>

\* Variant: the y limit without its floor.
YlimTopSinPiso(max_val, piso) == RMul(max_val, Rat(115, 100))

\* ax.set_ylim(bottom=0, top=max(max_val * 1.15, piso))
YlimTop(max_val, piso) == RMax(RMul(max_val, Rat(115, 100)), piso)

\* One bar chart: ax.bar(x, valores), the tick labels and the y limits.
Grafico(titulo, indicador, valores, max_val, piso) ==
    [ titulo |-> titulo, indicador |-> indicador, xticklabels |-> labels,
      barras |-> valores, ylim_bottom |-> Ent(0), ylim_top |-> YlimTop(max_val, piso) ]

GraficoSorbato(e) ==
    Grafico("Reduccion Uso Sorbato de Potasio", "reduccion_sorbato_kg_ano",
            sorbato_values(e), e.max_sorbato_val, Ent(1))

GraficoPda(e) ==
    Grafico("Perdida y Desperdicio de Alimentos Evitado", "pda_evitada_ton_ano",
            pda_values(e), e.max_pda_val, Ent(1))

GraficoPerdidas(e) ==
    Grafico("Perdidas Economicas Asociadas a PDA Evitada",
            "perdidas_economicas_pda_evitada_usd_ano",
            perdidas_eco_values(e), e.max_perdidas_val, Ent(1000))

\* Variant: a combined figure without the economic-loss chart.
FiguraCombinadaSinPerdidas(e) == <<GraficoSorbato(e), GraficoPda(e)>>

\* fig, (ax1, ax2, ax3): the combined figure handed to st.pyplot.
FiguraCombinada(e) == <<GraficoSorbato(e), GraficoPda(e), GraficoPerdidas(e)>>

\* download_button(fig, filename_prefix, key) on an individual figure.
BotonDescarga(grafico, filename_prefix, key) ==
    [key |-> key, file_name |-> filename_prefix, grafico |-> grafico]

Descargas(e) ==
    << BotonDescarga(GraficoSorbato(e), "Reduccion_Sorbato", "download_sorbato"),
       BotonDescarga(GraficoPda(e), "PDA_Evitado", "download_pda"),
       BotonDescarga(GraficoPerdidas(e), "Perdidas_Economicas_Evitadas_PDA",
                     "download_perdidas_eco") >>

\* pyplot's registry of open figures: plt.subplots adds one, plt.close
\* removes one.
AbrirFigura(abiertas) == abiertas + 1
CerrarFigura(abiertas) == abiertas - 1

(***************************************************************************)
(* 5. Logos.                                                               *)
(***************************************************************************)
LogoUrls == <<"sustrend_logo_url", "ttgreenfoods_logo_url">>

\* The except clause that handles a failure of each step of the try block
\* (a RequestException for a fetch, any other Exception otherwise), and the
\* exception it interpolates into the message.
ErrorDe(paso, i) ==
    [ mensaje |-> IF paso = "get"
                  THEN "Error al cargar los logos desde las URLs"
                  ELSE "Error inesperado al procesar las imagenes de los logos",
      e |-> <<paso, i>> ]

(***************************************************************************)
(* The session.                                                            *)
(***************************************************************************)
ValoresPorDefecto == [w \in NombresSliders |-> Widgets[w].value]

EnvVacio == [x \in {} |-> Ent(0)]

Init ==
    /\ sliders = ValoresPorDefecto
    /\ pc = "widgets"
    /\ env = EnvVacio
    /\ pagina = PaginaVacia
    /\ peticiones = << >>
    /\ figuras_abiertas = 0
    /\ prev = [hay |-> FALSE, sliders |-> ValoresPorDefecto, env |-> EnvVacio,
               metricas |-> << >>]

\* Variant: the avoided-loss percentage assigned from the reduction slider.
LeerSlidersCruzado ==
    /\ pc = "widgets"
    /\ env' = [sliders EXCEPT !.porcentaje_devoluciones_evitadas =
                                  sliders.porcentaje_reduccion_sorbato] @@ env
    /\ pc' = "calculos"
    /\ UNCHANGED <<sliders, pagina, peticiones, figuras_abiertas, prev>>

\* The four st.sidebar.slider calls: each returns its widget's position.
LeerSliders ==
    /\ pc = "widgets"
    /\ env' = sliders @@ env
    /\ pc' = "calculos"
    /\ UNCHANGED <<sliders, pagina, peticiones, figuras_abiertas, prev>>

\* Variant: the indicators of the first run kept in a cache and reused.
CalcularConCache ==
    /\ pc = "calculos"
    /\ env' = IF prev.hay THEN prev.env @@ env ELSE Ejecutar(env, Orden)
    /\ pc' = "metricas"
    /\ UNCHANGED <<sliders, pagina, peticiones, figuras_abiertas, prev>>

\* Section 3 of the script.
Calcular ==
    /\ pc = "calculos"
    /\ env' = Ejecutar(env, Orden)
    /\ pc' = "metricas"
    /\ UNCHANGED <<sliders, pagina, peticiones, figuras_abiertas, prev>>

\* 'Resultados Proyectados Anuales': the five text metrics.
Metricas ==
    /\ pc = "metricas"
    /\ pagina' = [pagina EXCEPT !.metricas = @ \o MostrarMetricas(env)]
    /\ pc' = "graficos"
    /\ UNCHANGED <<sliders, env, peticiones, figuras_abiertas, prev>>

\* The combined figure; it is handed to st.pyplot and never closed.
Graficos ==
    /\ pc = "graficos"
    /\ env' = Ejecutar(env, OrdenGraficos)
    /\ figuras_abiertas' = AbrirFigura(figuras_abiertas)
    /\ pagina' = [pagina EXCEPT !.figuras = Append(@, FiguraCombinada(env'))]
    /\ pc' = "descargas"
    /\ UNCHANGED <<sliders, peticiones, prev>>

\* The three individual figures: each is opened, saved into a download
\* button and closed.
DescargarGraficos ==
    /\ pc = "descargas"
    /\ figuras_abiertas' =
          CerrarFigura(AbrirFigura(CerrarFigura(AbrirFigura(
              CerrarFigura(AbrirFigura(figuras_abiertas))))))
    /\ pagina' = [pagina EXCEPT !.descargas = @ \o Descargas(env)]
    /\ pc' = "logo_get_1"
    /\ UNCHANGED <<sliders, env, peticiones, prev>>

\* Variant: the except clause stops the script after its message.
FallaLogoDetiene(paso, i) ==
    /\ pagina' = [pagina EXCEPT !.errores = Append(@, ErrorDe(paso, i))]
    /\ pc' = "fin"

\* A failure inside the try block: its except clause shows one st.error
\* and the script goes on after the with block.
FallaLogo(paso, i) ==
    /\ pagina' = [pagina EXCEPT !.errores = Append(@, ErrorDe(paso, i))]
    /\ pc' = "pie"

\* requests.get(url) and raise_for_status() of logo i.
GetLogo(i) ==
    /\ pc = IF i = 1 THEN "logo_get_1" ELSE "logo_get_2"
    /\ peticiones' = Append(peticiones, LogoUrls[i])
    /\ \E ok \in BOOLEAN :
          IF ok
          THEN /\ pc' = (IF i = 1 THEN "logo_open_1" ELSE "logo_open_2")
               /\ UNCHANGED pagina
          ELSE FallaLogo("get", i)
    /\ UNCHANGED <<sliders, env, figuras_abiertas, prev>>

\* Image.open(BytesIO(response.content)) of logo i.
OpenLogo(i) ==
    /\ pc = IF i = 1 THEN "logo_open_1" ELSE "logo_open_2"
    /\ \E ok \in BOOLEAN :
          IF ok
          THEN /\ pc' = (IF i = 1 THEN "logo_get_2" ELSE "logo_image")
               /\ UNCHANGED pagina
          ELSE FallaLogo("open", i)
    /\ UNCHANGED <<sliders, env, peticiones, figuras_abiertas, prev>>

\* st.image([sustrend_image, ttgreenfoods_image], width=100); the pixel
\* data is decoded here, still inside the try block.
StImage ==
    /\ pc = "logo_image"
    /\ \E ok \in BOOLEAN :
          IF ok
          THEN /\ pagina' = [pagina EXCEPT !.imagenes = Append(@, LogoUrls)]
               /\ pc' = "pie"
          ELSE FallaLogo("image", 0)
    /\ UNCHANGED <<sliders, env, peticiones, figuras_abiertas, prev>>

\* The footer line and the sidebar's version text.
Pie ==
    /\ pc = "pie"
    /\ pagina' = [pagina EXCEPT
                    !.pie = Append(@, "Vina del Mar, Valparaiso, Chile"),
                    !.sidebar = @ \o <<"Version del Visualizador: 1.8",
                                       "Desarrollado con Streamlit">>]
    /\ pc' = "fin"
    /\ UNCHANGED <<sliders, env, peticiones, figuras_abiertas, prev>>

\* A widget interaction once the page is complete: Streamlit re-runs the
\* script from the top with fresh globals and an empty page.  Widget state
\* and the pyplot registry are what the process keeps.
Rerun(nuevos) ==
    /\ pc = "fin"
    /\ figuras_abiertas < MaxEjecuciones
    /\ prev' = [hay |-> TRUE, sliders |-> sliders, env |-> env,
                metricas |-> pagina.metricas]
    /\ sliders' = nuevos
    /\ pc' = "widgets"
    /\ env' = EnvVacio
    /\ pagina' = PaginaVacia
    /\ peticiones' = << >>
    /\ UNCHANGED figuras_abiertas

\* The user moves one slider to another position.
MoverSlider ==
    \E w \in NombresSliders : \E v \in Posiciones(w) :
        /\ v # sliders[w]
        /\ Rerun([sliders EXCEPT ![w] = v])

\* The user clicks one of the download buttons: the sliders stay.
ClickDescarga ==
    \E b \in 1..Len(pagina.descargas) : Rerun(sliders)

Next ==
    \/ LeerSliders
    \/ Calcular
    \/ Metricas
    \/ Graficos
    \/ DescargarGraficos
    \/ \E i \in 1..2 : GetLogo(i)
    \/ \E i \in 1..2 : OpenLogo(i)
    \/ StImage
    \/ Pie
    \/ MoverSlider
    \/ ClickDescarga

Spec == Init /\ [][Next]_vars

(***************************************************************************)
(* Properties.                                                             *)
(*                                                                         *)
(* The closed forms below are written with integers, independently of the  *)
(* rational operators above: Pn tonnes, rn percent, dn tenths of a         *)
(* percent, precio_n USD per tonne; amounts shown on the page are in       *)
(* hundredths of their unit.                                               *)
(***************************************************************************)
Pn == sliders.produccion_anual.n
rn == sliders.porcentaje_reduccion_sorbato.n
dn == (10 * sliders.porcentaje_devoluciones_evitadas.n)
          \div sliders.porcentaje_devoluciones_evitadas.d
precio_n == sliders.precio_ciruela.n

\* The script has computed the five indicators of this run.
EnvListo == Indicadores \subseteq DOMAIN env

\* The five text metrics of this run are on the page.
MetricasListas == Len(pagina.metricas) = 5

\* The amount shown by the text metric of an indicator, in hundredths.
Mostrado(ind) ==
    LET i == CHOOSE j \in 1..Len(pagina.metricas) : pagina.metricas[j].indicador = ind
    IN  pagina.metricas[i].value

\* C1: the amount shown as 'Reduccion en Uso de Sorbato' is the sorbate mass
\* saved per year, 4 * r/100 * P kg (1 g/kg is 1 kg/ton), i.e. 4*r*P
\* hundredths of a kg.
C1_SorbatoMostradoEsMasaAhorrada ==
    MetricasListas => Mostrado("reduccion_sorbato_kg_ano") = 4 * rn * Pn

\* What the script shows instead: a thousandth of that mass (it divides the
\* product of g/kg and tonnes by 1000 once more), rounded to hundredths.
C1_SorbatoMostradoEsMilesima ==
    MetricasListas =>
        /\ env.reduccion_sorbato_kg_ano = Rat(4 * rn * Pn, 100 * 1000)
        /\ LET m == Mostrado("reduccion_sorbato_kg_ano")
           IN  2 * Abs(1000 * m - 4 * rn * Pn) < 1000

\* C2: the avoided food loss is d/100 * P tonnes and the avoided emissions
\* are that tonnage times 12000 km times 0.01 tCO2e per ton-km, i.e.
\* 120 * d/100 * P tCO2e, with no further division by 1000.
C2_PdaYGeiEvitados ==
    MetricasListas =>
        /\ env.pda_evitada_ton_ano = Rat(dn * Pn, 1000)
        /\ env.gei_evitados_tco2e_ano = Rat(120 * dn * Pn, 1000)
        /\ 10 * Mostrado("pda_evitada_ton_ano") = dn * Pn
        /\ 10 * Mostrado("gei_evitados_tco2e_ano") = 120 * dn * Pn

\* C2 witness: a finished run with a non-default production and a non-zero
\* avoided-loss percentage shows non-zero emissions.
C2_Witness ==
    /\ pc = "fin" /\ Pn = 5000 /\ dn = 1
    /\ Mostrado("pda_evitada_ton_ano") = 500
    /\ Mostrado("gei_evitados_tco2e_ano") = 60000

\* C3: the avoided economic loss is the avoided tonnage d/100 * P times the
\* price on the price slider; the data sheet's 3200 USD/ton enters the
\* result only when the slider itself is at 3200.
C3_PerdidasUsanPrecioDelSlider ==
    MetricasListas =>
        /\ env.perdidas_economicas_pda_evitada_usd_ano = Rat(dn * Pn * precio_n, 1000)
        /\ 10 * Mostrado("perdidas_economicas_pda_evitada_usd_ano") = dn * Pn * precio_n
        /\ (dn > 0 /\ precio_n # df_loc(4, "precio_ciruela_exportacion_usd_ton").n)
              => env.perdidas_economicas_pda_evitada_usd_ano #
                   Rat(dn * Pn * df_loc(4, "precio_ciruela_exportacion_usd_ton").n, 1000)

\* C3 witness: a finished run with the price slider away from 3200 and a
\* non-zero avoided tonnage.
C3_Witness ==
    /\ pc = "fin" /\ precio_n = 5000 /\ dn = 10 /\ Pn = 2500
    /\ Mostrado("perdidas_economicas_pda_evitada_usd_ano") = 12500000

\* C4: the sorbate cost saving is the sorbate mass the script computed (the
\* quantity it shows as the sorbate reduction) times 5 USD per kg.  The two
\* amounts are rounded to hundredths separately when shown, so the shown
\* saving is within 2 hundredths of 5 times the shown mass.
C4_AhorroEsMasaPorPrecio ==
    MetricasListas =>
        LET masa   == env.reduccion_sorbato_kg_ano
            ahorro == env.ahorro_costos_sorbato_usd_ano
        IN  /\ ahorro.n * masa.d = 5 * masa.n * ahorro.d
            /\ Mostrado("reduccion_sorbato_kg_ano") = Fmt2(masa)
            /\ Mostrado("ahorro_costos_sorbato_usd_ano") = Fmt2(Rat(5 * masa.n, masa.d))
            /\ Abs(Mostrado("ahorro_costos_sorbato_usd_ano")
                     - 5 * Mostrado("reduccion_sorbato_kg_ano")) <= 2

\* C4 witness: a finished run whose mass is not a whole number of
\* hundredths (0.084 kg, shown as 0.08 kg; saving shown as USD 0.42).
C4_Witness ==
    /\ pc = "fin" /\ Pn = 100 /\ rn = 21
    /\ env.reduccion_sorbato_kg_ano = Rat(84, 1000)
    /\ Mostrado("reduccion_sorbato_kg_ano") = 8
    /\ Mostrado("ahorro_costos_sorbato_usd_ano") = 42

\* C5: the five metrics shown are the formulas applied to the current
\* positions of the four sliders alone; a run with the same slider
\* positions as the run before it shows the same five metrics, whatever
\* earlier runs computed and however many figures they left open.
C5_MetricasSoloDependenDeSliders ==
    MetricasListas =>
        /\ pagina.metricas = MostrarMetricas(Ejecutar(sliders, Orden))
        /\ (prev.hay /\ prev.sliders = sliders) => pagina.metricas = prev.metricas

\* C5 witness: a finished re-run with the sliders where the run before left
\* them, away from the defaults of the first run, with figures of earlier
\* runs still open.
C5_Witness ==
    /\ pc = "fin" /\ prev.hay /\ prev.sliders = sliders
    /\ sliders # ValoresPorDefecto
    /\ figuras_abiertas >= 3
    /\ pagina.metricas = prev.metricas

\* The sliders an indicator is computed from, through the assignments.
RECURSIVE Fuentes(_)
Fuentes(x) ==
    IF x \in NombresSliders THEN {x} ELSE UNION {Fuentes(y) : y \in Lee(x)}

\* This run differs from the run before it in slider w only.
CambioUnico(w) ==
    /\ prev.hay
    /\ sliders[w] # prev.sliders[w]
    /\ \A o \in NombresSliders \ {w} : sliders[o] = prev.sliders[o]

\* a/x = b/y, or both sides are 0 where a slider is at 0.
Proporcional(a, x, b, y) ==
    IF x.n = 0 THEN a.n = 0
    ELSE IF y.n = 0 THEN b.n = 0
    ELSE RDiv(a, x) = RDiv(b, y)

\* Each indicator is proportional to each slider it is computed from: when
\* only slider w moved between two runs, indicator/w is the same in both.
Lineal ==
    EnvListo =>
        \A w \in NombresSliders : CambioUnico(w) =>
            \A m \in Indicadores : w \in Fuentes(m) =>
                Proporcional(env[m], sliders[w], prev.env[m], prev.sliders[w])

\* The computation of indicator m takes the computed value of x as input:
\* x is named on its right-hand side, and another value of x gives another m.
UsaValorDe(m, x) ==
    /\ x \in Lee(m)
    /\ LET e == [y \in Lee(m) |-> env[y]]
       IN  Valor(m, [e EXCEPT ![x] = RAdd(@, Ent(1))]) # Valor(m, e)

\* C6 as stated: five independent linear formulas, none of which takes the
\* computed value of another indicator as input.
C6_CincoFormulasIndependientes ==
    /\ Lineal
    /\ EnvListo => \A m \in Indicadores : \A x \in Indicadores : ~UsaValorDe(m, x)

\* C6 amended: each indicator is proportional to each slider it is computed
\* from, and three of the five are computed from another indicator's
\* value: the cost saving from the sorbate mass, the emissions and the
\* economic loss from the avoided tonnage.
C6_LinealesEnCadena ==
    /\ Lineal
    /\ EnvListo =>
          {mx \in Indicadores \X Indicadores : UsaValorDe(mx[1], mx[2])} =
              { <<"ahorro_costos_sorbato_usd_ano", "reduccion_sorbato_kg_ano">>,
                <<"gei_evitados_tco2e_ano", "pda_evitada_ton_ano">>,
                <<"perdidas_economicas_pda_evitada_usd_ano", "pda_evitada_ton_ano">> }

\* C6 witness: a finished run after each kind of single move, here the
\* reduction slider from 40 to 60 with every indicator non-zero.
C6_Witness ==
    /\ pc = "fin" /\ CambioUnico("porcentaje_reduccion_sorbato")
    /\ rn = 60 /\ prev.sliders.porcentaje_reduccion_sorbato = Ent(40)
    /\ \A m \in Indicadores : env[m].n > 0
    /\ env.reduccion_sorbato_kg_ano # prev.env.reduccion_sorbato_kg_ano

\* Charts of the page: those of the combined figure and those of the
\* download buttons.
GraficosCombinados ==
    {pagina.figuras[f][k] : <<f, k>> \in
        {fk \in (1..Len(pagina.figuras)) \X (1..3) : fk[2] <= Len(pagina.figuras[fk[1]])}}

GraficosDescargables == {pagina.descargas[b].grafico : b \in 1..Len(pagina.descargas)}

TieneMetrica(m) == \E i \in 1..Len(pagina.metricas) : pagina.metricas[i].indicador = m

\* A bar chart of m with one 'Linea Base' bar and one 'Proyeccion' bar.
EsPareado(g, m) ==
    /\ g.indicador = m
    /\ g.xticklabels = <<"Linea Base", "Proyeccion">>
    /\ Len(g.barras) = 2

TieneGraficoPareado(m) == \E g \in GraficosCombinados : EsPareado(g, m)

\* C7 as stated: on every run each of the five indicators is shown as a
\* text metric and as a paired bar chart.
C7_CincoMetricasCincoGraficos ==
    pc = "fin" => \A m \in Indicadores : TieneMetrica(m) /\ TieneGraficoPareado(m)

\* C7 amended: on every run each of the five indicators is shown as a text
\* metric; the sorbate reduction, the avoided food loss and the avoided
\* economic loss, and only these, are shown as a paired bar chart (in the
\* combined figure and again in a download button).
C7_CincoMetricasTresGraficos ==
    pc = "fin" =>
        /\ \A m \in Indicadores : TieneMetrica(m)
        /\ Len(pagina.metricas) = 5
        /\ {m \in Indicadores : TieneGraficoPareado(m)} =
              { "reduccion_sorbato_kg_ano", "pda_evitada_ton_ano",
                "perdidas_economicas_pda_evitada_usd_ano" }
        /\ {m \in Indicadores : \E g \in GraficosDescargables : EsPareado(g, m)} =
              { "reduccion_sorbato_kg_ano", "pda_evitada_ton_ano",
                "perdidas_economicas_pda_evitada_usd_ano" }
        /\ Cardinality(GraficosCombinados) = 3

\* C7 witness: a finished re-run with five metrics, a combined figure, and
\* no chart for the emissions or the cost saving.
C7_Witness ==
    /\ pc = "fin" /\ prev.hay
    /\ Len(pagina.metricas) = 5 /\ Len(pagina.figuras) = 1
    /\ ~TieneGraficoPareado("gei_evitados_tco2e_ano")
    /\ ~TieneGraficoPareado("ahorro_costos_sorbato_usd_ano")
    /\ TieneGraficoPareado("pda_evitada_ton_ano")

\* The floor of a chart's y axis: 1000 for the economic loss, 1 otherwise.
Piso(g) == IF g.indicador = "perdidas_economicas_pda_evitada_usd_ano" THEN 1000 ELSE 1

\* The tallest of the two bars of a chart.
MasAlta(g) == IF RLt(g.barras[1], g.barras[2]) THEN g.barras[2] ELSE g.barras[1]

BuenEje(g) ==
    /\ g.barras[1] = Ent(0)
    /\ g.barras[2].n >= 0
    /\ g.ylim_bottom = Ent(0)
    /\ g.ylim_top = IF 115 * MasAlta(g).n > 100 * Piso(g) * MasAlta(g).d
                    THEN Rat(115 * MasAlta(g).n, 100 * MasAlta(g).d)
                    ELSE Ent(Piso(g))
    /\ g.ylim_top.n > 0
    /\ \A k \in 1..2 : RLt(g.barras[k], g.ylim_top)

\* C8: in every bar chart the baseline bar is 0, the projection bar is not
\* negative, and the y axis runs from 0 to max(1.15 * tallest bar, floor),
\* which is positive and above every bar.
C8_EjesDeLosGraficos ==
    \A g \in GraficosCombinados \cup GraficosDescargables : BuenEje(g)

\* C8 witness: a finished run with the avoided-loss slider at 0: both bars
\* of the food-loss chart are 0 and its axis still ends at 1.
C8_Witness ==
    /\ pc = "fin" /\ dn = 0
    /\ \E g \in GraficosCombinados :
          /\ g.indicador = "pda_evitada_ton_ano"
          /\ g.barras = <<Ent(0), Ent(0)>> /\ g.ylim_top = Ent(1)
    /\ \E g \in GraficosDescargables :
          /\ g.indicador = "perdidas_economicas_pda_evitada_usd_ano"
          /\ g.barras = <<Ent(0), Ent(0)>> /\ g.ylim_top = Ent(1000)
    /\ \E g \in GraficosCombinados :
          /\ g.indicador = "reduccion_sorbato_kg_ano"
          /\ RLt(Ent(1), g.ylim_top)

\* C9: the logos are fetched in order and shown together only when every
\* step of the try block succeeded; a failure shows no logo and exactly one
\* error message, a failure on the first logo leaves the second unfetched,
\* and the script goes on to the footer and the sidebar version text with
\* the metrics and charts of the run as they were.
C9_LogosTodoONada ==
    /\ Len(peticiones) <= 2
    /\ \A k \in 1..Len(peticiones) : peticiones[k] = LogoUrls[k]
    /\ pagina.errores # << >> => pc \in {"pie", "fin"}
    /\ pc \in {"pie", "fin"} =>
          /\ Len(pagina.imagenes) + Len(pagina.errores) = 1
          /\ pagina.imagenes # << >> =>
                pagina.imagenes = <<LogoUrls>> /\ peticiones = LogoUrls
          /\ pagina.errores # << >> =>
                LET err == pagina.errores[1]
                IN  /\ err.e[2] = 1 => peticiones = <<LogoUrls[1]>>
                    /\ err.e[2] # 1 => peticiones = LogoUrls
                    /\ err.mensaje = IF err.e[1] = "get"
                                     THEN "Error al cargar los logos desde las URLs"
                                     ELSE "Error inesperado al procesar las imagenes de los logos"
          /\ pagina.metricas = MostrarMetricas(env)
          /\ pagina.figuras = <<FiguraCombinada(env)>>
          /\ pagina.descargas = Descargas(env)
    /\ pc = "fin" =>
          /\ pagina.pie = <<"Vina del Mar, Valparaiso, Chile">>
          /\ pagina.sidebar = <<"Version del Visualizador: 1.8", "Desarrollado con Streamlit">>

\* C9 witness: a finished run in which the second logo could not be
\* decoded: both were fetched, none is shown, one message, footer present.
C9_Witness ==
    /\ pc = "fin"
    /\ peticiones = LogoUrls
    /\ pagina.imagenes = << >>
    /\ Len(pagina.errores) = 1 /\ pagina.errores[1].e = <<"open", 2>>
    /\ Len(pagina.pie) = 1 /\ Len(pagina.sidebar) = 2
    /\ MetricasListas

\* The indicators a move of slider w alone may change.
PuedeCambiar(w) ==
    CASE w = "precio_ciruela" -> {"perdidas_economicas_pda_evitada_usd_ano"}
      [] w = "porcentaje_reduccion_sorbato" ->
            {"reduccion_sorbato_kg_ano", "ahorro_costos_sorbato_usd_ano"}
      [] w = "porcentaje_devoluciones_evitadas" ->
            {"pda_evitada_ton_ano", "gei_evitados_tco2e_ano",
             "perdidas_economicas_pda_evitada_usd_ano"}
      [] w = "produccion_anual" -> Indicadores

\* The amount the run before this one showed for an indicator.
MostradoAntes(ind) ==
    LET i == CHOOSE j \in 1..Len(prev.metricas) : prev.metricas[j].indicador = ind
    IN  prev.metricas[i].value

\* C10: moving one slider between two runs leaves every indicator that does
\* not read it as it was, computed and shown; a move of the production
\* slider changes all five (where they are not 0), and no other slider can.
C10_MarcoDeLosSliders ==
    MetricasListas =>
        \A w \in NombresSliders : CambioUnico(w) =>
            /\ \A m \in Indicadores \ PuedeCambiar(w) :
                  /\ env[m] = prev.env[m]
                  /\ Mostrado(m) = MostradoAntes(m)
            /\ (\A m \in Indicadores : env[m] # prev.env[m]) => w = "produccion_anual"
            /\ (w = "produccion_anual" /\ \A m \in Indicadores : env[m].n > 0)
                  => \A m \in Indicadores : env[m] # prev.env[m]

\* C10 witness: a finished run after a move of the price slider alone: the
\* economic loss changed, the other four did not.
C10_Witness ==
    /\ pc = "fin" /\ CambioUnico("precio_ciruela")
    /\ Mostrado("perdidas_economicas_pda_evitada_usd_ano")
          # MostradoAntes("perdidas_economicas_pda_evitada_usd_ano")
    /\ \A m \in Indicadores \ PuedeCambiar("precio_ciruela") :
          Mostrado(m) = MostradoAntes(m) /\ Mostrado(m) > 0

====
